---------------------------- MODULE Spec2Model ----------------------------
(***************************************************************************)
(* A model of streamlit_app.py: the electricity-price dashboard.           *)
(*                                                                         *)
(*   - apply_unit_and_vat  on IEEE-754 binary64 values (Python float),     *)
(*   - rank_sets           on lists of price rows,                         *)
(*   - fetch_day_rows      (the function body, and the 15 minute           *)
(*                          st.cache_data memoization around it),          *)
(*   - the module-level render script, one action per script run.          *)
(*                                                                         *)
(* Five specifications share the variables: SpecUnit, SpecRank, SpecFetch  *)
(* and SpecCache exercise one function each on enumerated inputs, Spec is  *)
(* the render loop of one browser session.                                 *)
(***************************************************************************)
EXTENDS Integers, Sequences, FiniteSets, TLC

VARIABLES
    call,          \* pure-function harness: the call being made and its result
    now,           \* SpecCache: the clock, in minutes, and the ticks taken
    cache,         \* SpecCache: st.cache_data's store for fetch_day_rows
    retrieved,     \* SpecCache: history, last network retrieval per key
    last,          \* SpecCache: the last call made and what it returned
    nfetch,        \* SpecCache: number of network retrievals made so far
    plotly_events, \* Spec: whether streamlit_plotly_events was imported
    area,          \* Spec: sidebar selectbox
    day_choice,    \* Spec: sidebar radio
    display_ore,   \* Spec: sidebar toggle
    include_vat,   \* Spec: sidebar toggle
    selected_idx,  \* Spec: st.session_state.selected_idx
    run            \* Spec: what the last script run did and displayed

vars == << call, now, cache, retrieved, last, nfetch, plotly_events, area,
           day_choice, display_ore, include_vat, selected_idx, run >>

\* Python values whose type varies are tagged: None, an int, a list; Unset
\* is the absence of a key in a dict.
None == [k |-> "None"]
Unset == [k |-> "unset"]
PyInt(i) == [k |-> "int", v |-> i]
PyList(s) == [k |-> "list", v |-> s]

(***************************************************************************)
(* Python floats.  A finite binary64 value is sign * sig * 2^exp, where    *)
(* sig is the 53-bit significand, 2^52 <= sig < 2^53 unless the value is   *)
(* zero.  A significand does not fit TLC's integers, so naturals are kept  *)
(* as little-endian sequences of limbs in base 2^LimbBits.  Exponent range *)
(* and subnormals are out of reach of the prices modelled.                 *)
(***************************************************************************)
MantBits == 53
LimbBits == 13

RECURSIVE Pow2(_)
Pow2(n) == IF n = 0 THEN 1 ELSE 2 * Pow2(n - 1)

LimbBase == Pow2(LimbBits)

\* The number of limbs of a significand.
MantLimbs == (MantBits + LimbBits - 1) \div LimbBits

\* The limbs of the natural number n (<< >> for 0).
RECURSIVE NatLimbs(_)
NatLimbs(n) ==
    IF n = 0 THEN << >>
    ELSE << n % LimbBase >> \o NatLimbs(n \div LimbBase)

\* Drop the zero limbs at the most significant end.
RECURSIVE Trim(_)
Trim(n) ==
    IF n = << >> \/ n[Len(n)] # 0 THEN n ELSE Trim(SubSeq(n, 1, Len(n) - 1))

\* The number of binary digits of a small natural.
RECURSIVE IntBitLen(_)
IntBitLen(k) == IF k = 0 THEN 0 ELSE 1 + IntBitLen(k \div 2)

\* The number of binary digits of a trimmed limb sequence.
BitLen(n) ==
    IF n = << >> THEN 0 ELSE (Len(n) - 1) * LimbBits + IntBitLen(n[Len(n)])

\* n * k + carry for a small natural k (k <= LimbBase).
RECURSIVE MulSmall(_, _, _)
MulSmall(n, k, carry) ==
    IF n = << >> THEN NatLimbs(carry)
    ELSE LET d == Head(n) * k + carry
         IN  << d % LimbBase >> \o MulSmall(Tail(n), k, d \div LimbBase)

\* n + 1.
RECURSIVE Inc(_)
Inc(n) ==
    IF n = << >> THEN << 1 >>
    ELSE IF Head(n) + 1 < LimbBase THEN << Head(n) + 1 >> \o Tail(n)
    ELSE << 0 >> \o Inc(Tail(n))

\* n * 2^t.
ShiftLeft(n, t) ==
    [i \in 1..(t \div LimbBits) |-> 0] \o MulSmall(n, Pow2(t % LimbBits), 0)

\* Bit i (from 0) of n.
BitAt(n, i) ==
    LET j == i \div LimbBits + 1
    IN  IF j > Len(n) THEN 0 ELSE (n[j] \div Pow2(i % LimbBits)) % 2

\* Whether any of the bits 0 .. i-1 of n is set.
AnyBitBelow(n, i) ==
    LET j == i \div LimbBits + 1
    IN  \/ \E h \in 1..(j - 1) : h <= Len(n) /\ n[h] # 0
        \/ j <= Len(n) /\ n[j] % Pow2(i % LimbBits) # 0

\* floor(m / 2^t) for t < LimbBits.
ShiftRightBits(m, t) ==
    Trim([i \in 1..Len(m) |->
             m[i] \div Pow2(t)
                + (IF i + 1 <= Len(m) THEN m[i + 1] % Pow2(t) ELSE 0)
                     * Pow2(LimbBits - t)])

\* floor(n / 2^s).
ShiftRight(n, s) ==
    ShiftRightBits(SubSeq(n, s \div LimbBits + 1, Len(n)), s % LimbBits)

MkFloat(neg, sig, exp) ==
    [neg |-> neg,
     sig |-> sig \o [i \in 1..(MantLimbs - Len(sig)) |-> 0],
     exp |-> exp]

FZero == MkFloat(FALSE, << >>, 0)

IsZero(x) == \A i \in 1..Len(x.sig) : x.sig[i] = 0

\* The rounded significand r of a value below 2^MantBits * 2^exp: it may
\* have reached 2^MantBits, which is 2^(MantBits-1) * 2^(exp+1).
Renormalize(neg, r, exp) ==
    IF BitLen(r) > MantBits
    THEN MkFloat(neg, ShiftRight(r, 1), exp + 1)
    ELSE MkFloat(neg, r, exp)

\* Round to nearest, ties to even: q the significand truncated, guard the
\* first bit dropped, sticky whether any lower bit was set.
RoundToEven(neg, q, guard, sticky, exp) ==
    IF guard = 1 /\ (sticky \/ q[1] % 2 = 1)
    THEN Renormalize(neg, Trim(Inc(q)), exp)
    ELSE MkFloat(neg, q, exp)

\* Round n * 2^exp, n of len binary digits.
RoundLen(neg, n, exp, len) ==
    IF len <= MantBits
    THEN MkFloat(neg, Trim(ShiftLeft(n, MantBits - len)),
                 exp - (MantBits - len))
    ELSE RoundToEven(neg, ShiftRight(n, len - MantBits),
                     BitAt(n, len - MantBits - 1),
                     AnyBitBelow(n, len - MantBits - 1),
                     exp + (len - MantBits))

\* Round the exact value n * 2^exp (n a trimmed, non-zero natural) to
\* binary64.
Round53(neg, n, exp) == RoundLen(neg, n, exp, BitLen(n))

\* A dyadic constant m * 2^e with a small natural m: 0.25, 1, 100.
Dy(m, e) == [m |-> m, e |-> e]

\* a + b for dyadic constants (exact, as the float sum of such constants is).
DyAdd(a, b) ==
    LET e == IF a.e < b.e THEN a.e ELSE b.e
    IN  [m |-> a.m * Pow2(a.e - e) + b.m * Pow2(b.e - e), e |-> e]

\* x * c in binary64 for a float x and a dyadic constant c > 0: the exact
\* product, rounded once.
FMul(x, c) ==
    IF IsZero(x) THEN FZero
    ELSE Round53(x.neg, Trim(MulSmall(x.sig, c.m, 0)), x.exp + c.e)

\* n limbs of the fraction r/den (r < den), and the remainder left:
\* << limbs, remainder >>.
RECURSIVE FracLimbs(_, _, _)
FracLimbs(r, den, n) ==
    IF n = 0 THEN << << >>, r >>
    ELSE LET rest == FracLimbs((r * LimbBase) % den, den, n - 1)
         IN  << rest[1] \o << (r * LimbBase) \div den >>, rest[2] >>

\* Fraction limbs computed when parsing: enough for MantBits significant
\* bits of any non-zero num/den with den <= 10^5.
ParseLimbs == MantLimbs + 2

\* The binary64 of a / den from the fraction limbs fr of (a % den) / den:
\* the digits, the remainder kept as a sticky bit, rounded.
ParseDigits(neg, a, den, fr) ==
    Round53(neg,
            Trim(MulSmall(fr[1] \o NatLimbs(a \div den), 2,
                          IF fr[2] # 0 THEN 1 ELSE 0)),
            0 - (ParseLimbs * LimbBits + 1))

ParseAbs(neg, a, den) ==
    ParseDigits(neg, a, den, FracLimbs(a % den, den, ParseLimbs))

\* The binary64 nearest to the decimal literal num/den (num an integer, den
\* a power of ten up to 10^5), as JSON decoding and float() produce it: long
\* division, rounded to nearest even.
ParseDecimal(num, den) ==
    IF num = 0 THEN FZero
    ELSE ParseAbs(num < 0, IF num < 0 THEN 0 - num ELSE num, den)

(***************************************************************************)
(* Configuration (lines 22-31).                                            *)
(***************************************************************************)
AREAS == << "SE1", "SE2", "SE3", "SE4" >>
DEFAULT_AREA == "SE4"

\* VAT_RATE = 0.25 = 1 * 2^-2
VAT_RATE == Dy(1, -2)

COLOR_TOP16_PURPLE == "#8E44AD"
COLOR_NEXT8_RED == "#E74C3C"
COLOR_OTHER_GREEN == "#2ECC71"

(***************************************************************************)
(* apply_unit_and_vat (lines 54-56).                                       *)
(***************************************************************************)
\* The variant that scales to öre first and applies the tax afterwards.
apply_unit_and_vat_scale_first(sek_per_kwh, ore, vat) ==
    LET price == IF ore THEN FMul(sek_per_kwh, Dy(100, 0)) ELSE sek_per_kwh
    IN  IF vat THEN FMul(price, DyAdd(Dy(1, 0), VAT_RATE)) ELSE price

apply_unit_and_vat(sek_per_kwh, ore, vat) ==
    LET price == IF vat THEN FMul(sek_per_kwh, DyAdd(Dy(1, 0), VAT_RATE))
                 ELSE sek_per_kwh
    IN  IF ore THEN FMul(price, Dy(100, 0)) ELSE price

(***************************************************************************)
(* Price rows.  A row is a dict of the decoded JSON body: time_start, the  *)
(* interval's identifier (here the index of the quarter-hour, in the       *)
(* order of the instants the strings denote), and SEK_per_kWh, the decimal *)
(* literal of the price, kept as its numerator over 1000.                  *)
(***************************************************************************)
MaxRows == 26
MaxMul == 3

Min(a, b) == IF a < b THEN a ELSE b

\* n rows with distinct identifiers.  Prices are pairwise distinct for
\* d = 1 (31 is prime and n <= 31) and tie for d > 1; some are negative.
\* The rows come in time order, or in reverse time order when rev.
MkRows(n, a, b, d, rev) ==
    [i \in 1..n |->
        [time_start  |-> IF rev THEN n - i ELSE i - 1,
         SEK_per_kWh |-> 10 * (((a * i + b) % 31) \div d) - 50]]

\* rows with the price key removed from row k (k = 0: from none).
DropPrice(rows, k) ==
    [i \in 1..Len(rows) |->
        IF i = k THEN [time_start |-> rows[i].time_start] ELSE rows[i]]

\* r.get("SEK_per_kWh", 0.0)
PriceKey(r) == IF "SEK_per_kWh" \in DOMAIN r THEN r.SEK_per_kWh ELSE 0

\* s[lo:hi] for 0 <= lo <= hi.
PySlice(s, lo, hi) == SubSeq(s, lo + 1, Min(hi, Len(s)))

\* Insert x into s, sorted by PriceKey descending, behind the elements
\* whose key is not smaller: equal keys keep the order of arrival.
InsertDesc(s, x) ==
    LET p == Cardinality({i \in 1..Len(s) : PriceKey(s[i]) >= PriceKey(x)})
    IN  SubSeq(s, 1, p) \o << x >> \o SubSeq(s, p + 1, Len(s))

\* sorted(rows, key=..., reverse=True): a stable sort, so that rows of equal
\* price keep their order in rows.
RECURSIVE SortedDesc(_)
SortedDesc(rows) ==
    IF rows = << >> THEN << >>
    ELSE InsertDesc(SortedDesc(SubSeq(rows, 1, Len(rows) - 1)),
                    rows[Len(rows)])

\* sorted(rows, key=...): ascending and stable.
RECURSIVE SortedAsc(_)
SortedAsc(rows) ==
    IF rows = << >> THEN << >>
    ELSE LET s == SortedAsc(SubSeq(rows, 1, Len(rows) - 1))
             x == rows[Len(rows)]
             p == Cardinality({i \in 1..Len(s) :
                                  PriceKey(s[i]) <= PriceKey(x)})
         IN  SubSeq(s, 1, p) \o << x >> \o SubSeq(s, p + 1, Len(s))

(***************************************************************************)
(* rank_sets (lines 58-63).                                                *)
(***************************************************************************)
\* The variant that sorts ascending (reverse=True forgotten).
rank_sets_ascending(rows) ==
    LET sorted_rows == SortedAsc(rows)
        top         == PySlice(sorted_rows, 0, 16)
        nxt         == PySlice(sorted_rows, 16, 24)
    IN  [top16 |-> {top[i].time_start : i \in 1..Len(top)},
         next8 |-> {nxt[i].time_start : i \in 1..Len(nxt)}]

\* The variant whose second slice starts one row early.
rank_sets_overlapping(rows) ==
    LET sorted_rows == SortedDesc(rows)
        top         == PySlice(sorted_rows, 0, 16)
        nxt         == PySlice(sorted_rows, 15, 24)
    IN  [top16 |-> {top[i].time_start : i \in 1..Len(top)},
         next8 |-> {nxt[i].time_start : i \in 1..Len(nxt)}]

rank_sets(rows) ==
    LET sorted_rows == SortedDesc(rows)
        top         == PySlice(sorted_rows, 0, 16)
        nxt         == PySlice(sorted_rows, 16, 24)
    IN  [top16 |-> {top[i].time_start : i \in 1..Len(top)},
         next8 |-> {nxt[i].time_start : i \in 1..Len(nxt)}]

(***************************************************************************)
(* The variables each specification leaves alone.                          *)
(***************************************************************************)
cacheVars == << now, cache, retrieved, last, nfetch >>
uiVars == << plotly_events, area, day_choice, display_ore, include_vat,
             selected_idx, run >>

CacheIdle ==
    /\ now = [t |-> 0, ticks |-> 0]
    /\ cache = << >>
    /\ retrieved = << >>
    /\ last = None
    /\ nfetch = 0

UiIdle ==
    /\ plotly_events = FALSE
    /\ area = DEFAULT_AREA
    /\ day_choice = "Idag"
    /\ display_ore = FALSE
    /\ include_vat = FALSE
    /\ selected_idx = Unset
    /\ run = [started |-> FALSE]

(***************************************************************************)
(* SpecRank: rank_sets applied to enumerated row lists.                    *)
(***************************************************************************)
RankInputs ==
    { DropPrice(MkRows(n, a, b, d, rev), k) :
        n \in 0..MaxRows, a \in 1..MaxMul, b \in 0..1, d \in {1, 4},
        rev \in BOOLEAN, k \in 0..1 }

InitRank ==
    /\ call \in { [op |-> "rank_sets", pc |-> "call", rows |-> r] :
                    r \in RankInputs }
    /\ CacheIdle
    /\ UiIdle

CallRankSets ==
    /\ call.op = "rank_sets"
    /\ call.pc = "call"
    /\ call' = [op |-> "rank_sets", pc |-> "return", rows |-> call.rows,
                ret |-> rank_sets(call.rows)]
    /\ UNCHANGED << cacheVars, uiVars >>

SpecRank == InitRank /\ [][CallRankSets]_vars

(***************************************************************************)
(* SpecUnit: apply_unit_and_vat applied to enumerated prices and flags.    *)
(***************************************************************************)
MaxMilli == 45

\* Numerators over 1000 of the raw prices tried: -0.045 .. 0.045 SEK/kWh,
\* and 0.50 and 1.20 SEK/kWh.
UnitPrices == ((0 - MaxMilli)..MaxMilli) \cup {500, 1200}

InitUnit ==
    /\ call \in { [op |-> "apply_unit_and_vat", pc |-> "call", sek |-> k,
                   display_ore |-> o, include_vat |-> v] :
                    k \in UnitPrices, o \in BOOLEAN, v \in BOOLEAN }
    /\ CacheIdle
    /\ UiIdle

CallApplyUnitAndVat ==
    /\ call.op = "apply_unit_and_vat"
    /\ call.pc = "call"
    /\ call' = [op |-> "apply_unit_and_vat", pc |-> "return",
                sek |-> call.sek, display_ore |-> call.display_ore,
                include_vat |-> call.include_vat,
                ret |-> apply_unit_and_vat(ParseDecimal(call.sek, 1000),
                                           call.display_ore,
                                           call.include_vat)]
    /\ UNCHANGED << cacheVars, uiVars >>

SpecUnit == InitUnit /\ [][CallApplyUnitAndVat]_vars

(***************************************************************************)
(* Properties of rank_sets, under SpecRank.                                *)
(***************************************************************************)
RankReturned == call.op = "rank_sets" /\ call.pc = "return"

HasPrice(r) == "SEK_per_kWh" \in DOMAIN r

DistinctPrices(rows) ==
    /\ \A i \in 1..Len(rows) : HasPrice(rows[i])
    /\ \A i, j \in 1..Len(rows) :
          i # j => rows[i].SEK_per_kWh # rows[j].SEK_per_kWh

InTop(r) == r.time_start \in call.ret.top16
InNext(r) == r.time_start \in call.ret.next8

\* C1: for a list of at least 24 rows with pairwise distinct prices,
\* rank_sets returns top16 with exactly 16 identifiers and next8 with exactly
\* 8, the two are disjoint, and every price in top16 >= every price in next8
\* >= every price of a row in neither set.
C1_FullRanking ==
    (RankReturned /\ Len(call.rows) >= 24 /\ DistinctPrices(call.rows)) =>
        LET rows == call.rows
        IN  /\ Cardinality(call.ret.top16) = 16
            /\ Cardinality(call.ret.next8) = 8
            /\ call.ret.top16 \cap call.ret.next8 = {}
            /\ \A i, j \in 1..Len(rows) :
                  /\ (InTop(rows[i]) /\ InNext(rows[j])) =>
                        rows[i].SEK_per_kWh >= rows[j].SEK_per_kWh
                  /\ (InNext(rows[i]) /\ ~InTop(rows[j]) /\ ~InNext(rows[j]))
                        => rows[i].SEK_per_kWh >= rows[j].SEK_per_kWh
                  /\ (InTop(rows[i]) /\ ~InTop(rows[j]) /\ ~InNext(rows[j]))
                        => rows[i].SEK_per_kWh >= rows[j].SEK_per_kWh

\* A ranked list of more than 24 rows with distinct prices, not in price
\* order: rows fall in top16, in next8 and in neither.
C1_Witness ==
    /\ RankReturned
    /\ Len(call.rows) > 24
    /\ DistinctPrices(call.rows)
    /\ \E i, j \in 1..Len(call.rows) :
          /\ i < j
          /\ InTop(call.rows[j])
          /\ ~InTop(call.rows[i]) /\ ~InNext(call.rows[i])

\* C2: for a list of fewer than 24 rows, the empty list included, rank_sets
\* returns sets with |top16| + |next8| = number of rows, the two are
\* disjoint, and both are empty for the empty list.
C2_ShortRanking ==
    (RankReturned /\ Len(call.rows) < 24) =>
        /\ Cardinality(call.ret.top16) + Cardinality(call.ret.next8)
              = Min(Len(call.rows), 24)
        /\ Min(Len(call.rows), 24) = Len(call.rows)
        /\ call.ret.top16 \cap call.ret.next8 = {}
        /\ (call.rows = << >> =>
              call.ret.top16 = {} /\ call.ret.next8 = {})

\* A ranked list of 17 to 23 rows with tied prices and a row without price:
\* top16 is full, next8 is not empty and not full.
C2_Witness ==
    /\ RankReturned
    /\ Len(call.rows) < 24
    /\ ~DistinctPrices(call.rows)
    /\ Cardinality(call.ret.top16) = 16
    /\ Cardinality(call.ret.next8) \in 1..7

\* The empty list ranked.
C2_WitnessEmpty ==
    RankReturned /\ call.rows = << >> /\ call.ret.top16 = {}

(***************************************************************************)
(* Properties of apply_unit_and_vat, under SpecUnit.                       *)
(***************************************************************************)
UnitReturned == call.op = "apply_unit_and_vat" /\ call.pc = "return"

RawPrice == ParseDecimal(call.sek, 1000)

\* 1.25 and 100 as the floats the code multiplies by, and 1.
F125 == Dy(5, -2)
F100 == Dy(100, 0)
F1 == Dy(1, 0)

\* The result is (p * (1.25 if include_vat else 1)) * (100 if display_ore
\* else 1), tax first, each product rounded to binary64.
TaxThenScale ==
    call.ret = FMul(FMul(RawPrice, IF call.include_vat THEN F125 ELSE F1),
                    IF call.display_ore THEN F100 ELSE F1)

\* With the tax flag as in the call, the display price in öre is exactly
\* 100 times the display price in SEK.
OreIsTimes100 ==
    call.display_ore =>
        call.ret = FMul(apply_unit_and_vat(RawPrice, FALSE, call.include_vat),
                        F100)

\* With the unit flag as in the call, the display price with tax is exactly
\* 1.25 times the display price without.
VatIsTimes125 ==
    call.include_vat =>
        call.ret = FMul(apply_unit_and_vat(RawPrice, call.display_ore, FALSE),
                        F125)

\* Raw prices 0.50 and 1.20 give 0.625 and 1.50 with tax only.
TaxExamples ==
    (call.include_vat /\ ~call.display_ore) =>
        /\ call.sek = 500 => call.ret = ParseDecimal(625, 1000)
        /\ call.sek = 1200 => call.ret = ParseDecimal(1500, 1000)

\* C8 as stated: tax before scaling, the product formula, exactly 100 for
\* the subunit flag and exactly 1.25 for the tax flag whatever the other
\* flag is.
C8_ExactFactors ==
    UnitReturned =>
        TaxThenScale /\ OreIsTimes100 /\ VatIsTimes125 /\ TaxExamples

\* C8 as amended: the factor 1.25 is exact for the display in SEK; in öre
\* the result is the rounded product (p * 1.25) * 100.
C8_FactorsAsRounded ==
    UnitReturned =>
        /\ TaxThenScale
        /\ OreIsTimes100
        /\ ~call.display_ore => VatIsTimes125
        /\ TaxExamples

\* A call with both flags set whose result is not 1.25 times the untaxed
\* price in öre, as for 0.021 SEK/kWh.
C8_Witness ==
    /\ UnitReturned
    /\ call.include_vat /\ call.display_ore
    /\ ~VatIsTimes125

(***************************************************************************)
(* fetch_day_rows (lines 40-51): the function body.                        *)
(*                                                                         *)
(* What requests.get does is the environment's choice: it raises (no       *)
(* connection, timeout after 20 s), or it returns a response with a status *)
(* code and a body; r.json() raises on a body that is not JSON.            *)
(***************************************************************************)
Raise(e) == [k |-> "raise", exc |-> e]
Return(v) == [k |-> "return", v |-> v]

Response(status, body) == [k |-> "response", status |-> status, body |-> body]

\* Bodies: not JSON at all; the JSON values null, a number, an object; lists.
NotJson == [k |-> "notjson"]
JsonObject == [k |-> "dict"]

build_api_url(date, a) == << "api/v1/prices", date, a >>

\* Lines 44-49, the body of the try block: what it returns or raises.
fetch_try(date, a, get) ==
    IF get.k = "raise" THEN get
    ELSE IF get.status # 200 THEN Return(None)
    ELSE IF get.body = NotJson THEN Raise("JSONDecodeError")
    ELSE IF get.body.k = "list" /\ Len(get.body.v) > 0
         THEN Return(get.body)
         ELSE Return(None)

\* The variant whose except clause names the transport errors only.
fetch_day_rows_narrow_except(date, a, get) ==
    LET t == fetch_try(date, a, get)
    IN  IF t.k = "raise" /\ t.exc \in {"ConnectionError", "Timeout"}
        THEN Return(None)
        ELSE t

\* Lines 43-51: every Exception raised in the try block becomes None.
fetch_day_rows_body(date, a, get) ==
    LET t == fetch_try(date, a, get)
    IN  IF t.k = "raise" THEN Return(None) ELSE t

(***************************************************************************)
(* SpecFetch: the function body applied to enumerated answers of the API.  *)
(***************************************************************************)
MaxBodyRows == 2

Statuses == {200, 204, 404, 500}

Bodies ==
    {NotJson, JsonObject, None, PyInt(0)}
        \cup { PyList(MkRows(n, 1, b, 1, FALSE)) : n \in 0..MaxBodyRows,
                                                  b \in 0..1 }

GetOutcomes ==
    {Raise("ConnectionError"), Raise("Timeout")}
        \cup { Response(st, b) : st \in Statuses, b \in Bodies }

InitFetch ==
    /\ call \in { [op |-> "fetch_day_rows", pc |-> "call", date |-> d,
                   area |-> AREAS[i], get |-> g] :
                    d \in 0..1, i \in 1..Len(AREAS), g \in GetOutcomes }
    /\ CacheIdle
    /\ UiIdle

CallFetchDayRows ==
    /\ call.op = "fetch_day_rows"
    /\ call.pc = "call"
    /\ call' = [op |-> "fetch_day_rows", pc |-> "return", date |-> call.date,
                area |-> call.area, get |-> call.get,
                url |-> build_api_url(call.date, call.area),
                ret |-> fetch_day_rows_body(call.date, call.area, call.get)]
    /\ UNCHANGED << cacheVars, uiVars >>

SpecFetch == InitFetch /\ [][CallFetchDayRows]_vars

FetchReturned == call.op = "fetch_day_rows" /\ call.pc = "return"

\* The API answered 200 with a body that decodes to a non-empty list.
GoodAnswer(get) ==
    /\ get.k = "response"
    /\ get.status = 200
    /\ get.body # NotJson
    /\ get.body.k = "list"
    /\ Len(get.body.v) > 0

\* C3: fetch_day_rows returns a row list only when the status is 200 and
\* the decoded body is a non-empty list, and then that list; on a transport
\* error, a timeout, another status, an undecodable body, a body that is no
\* list, or an empty list it returns None; no exception reaches the caller.
C3_AbsentOnAnyFailure ==
    FetchReturned =>
        /\ call.ret.k = "return"
        /\ GoodAnswer(call.get) => call.ret.v = call.get.body
        /\ ~GoodAnswer(call.get) => call.ret.v = None

\* A call answered 200 with a body that is not JSON has returned.
C3_Witness ==
    /\ FetchReturned
    /\ call.get.k = "response"
    /\ call.get.status = 200
    /\ call.get.body = NotJson
    /\ call.ret = Return(None)

(***************************************************************************)
(* @st.cache_data(ttl="15m") (line 40): fetch_day_rows is memoized on its  *)
(* arguments.  An entry is written when the function body has returned     *)
(* and is served while the clock is below the time of writing plus the     *)
(* ttl; an expired or missing entry makes the call run the body again.     *)
(* The clock counts minutes.                                               *)
(***************************************************************************)
TTL_MINUTES == 15

MaxTicks == 2
MaxFetches == 2

NoEntry == [has |-> FALSE]
Entry(v, t) == [has |-> TRUE, value |-> v, at |-> t]

\* The variant that keys the entries by area alone.
cache_key_area_only(date, a) == << 0, a >>

\* The key of an entry: the arguments of the call.
cache_key(date, a) == << date, a >>

\* The variant without expiry.
cache_fresh_forever(e, t) == e.has

\* Whether entry e is served at time t.
cache_fresh(e, t) == e.has /\ t < e.at + TTL_MINUTES

\* The arguments tried: today in two areas, and tomorrow in one of them.
CacheArgs == { << 0, AREAS[3] >>, << 0, AREAS[4] >>, << 1, AREAS[4] >> }
CacheKeys == { cache_key(c[1], c[2]) : c \in CacheArgs } \cup CacheArgs

\* What the API answers at a retrieval: not found, or a table.
CacheAnswers ==
    { Response(404, None),
      Response(200, PyList(MkRows(2, 1, 0, 1, FALSE))) }

\* The minutes that pass between two calls: one, or one less than the ttl.
Elapses == {1, 14}

CallIdle == call = [op |-> "idle", pc |-> "idle"]

NoCall == [has |-> FALSE]

InitCache ==
    /\ CallIdle
    /\ UiIdle
    /\ now = [t |-> 0, ticks |-> 0]
    /\ cache = [key \in CacheKeys |-> NoEntry]
    /\ retrieved = [key \in CacheKeys |-> NoEntry]
    /\ last = NoCall
    /\ nfetch = 0

\* Time passes: d minutes.  The clock's record counts the ticks taken.
Tick(d) ==
    /\ now.ticks < MaxTicks
    /\ now' = [t |-> now.t + d, ticks |-> now.ticks + 1]
    /\ UNCHANGED << call, cache, retrieved, last, nfetch, uiVars >>

\* fetch_day_rows(date, a) is called and finds a fresh entry.
FetchHit(date, a) ==
    LET key == cache_key(date, a)
    IN  /\ cache_fresh(cache[key], now.t)
        /\ last' = [has |-> TRUE, date |-> date, area |-> a, at |-> now.t,
                    net |-> FALSE, ret |-> cache[key].value]
        /\ UNCHANGED << call, now, cache, retrieved, nfetch, uiVars >>

\* fetch_day_rows(date, a) is called, finds no fresh entry, runs the body
\* against the API's answer and stores what the body returned.
FetchMiss(date, a, get) ==
    LET key == cache_key(date, a)
        res == fetch_day_rows_body(date, a, get)
    IN  /\ nfetch < MaxFetches
        /\ ~cache_fresh(cache[key], now.t)
        /\ res.k = "return"
        /\ cache' = [cache EXCEPT ![key] = Entry(res.v, now.t)]
        /\ retrieved' =
              [retrieved EXCEPT ![<< date, a >>] = Entry(res.v, now.t)]
        /\ nfetch' = nfetch + 1
        /\ last' = [has |-> TRUE, date |-> date, area |-> a, at |-> now.t,
                    net |-> TRUE, ret |-> res.v]
        /\ UNCHANGED << call, now, uiVars >>

NextCache ==
    \/ \E d \in Elapses : Tick(d)
    \/ \E c \in CacheArgs : FetchHit(c[1], c[2])
    \/ \E c \in CacheArgs, g \in CacheAnswers : FetchMiss(c[1], c[2], g)

SpecCache == InitCache /\ [][NextCache]_vars

\* C10: a call made less than 15 minutes after a network retrieval for the
\* same (date, area) returns that retrieval's result, rows or None, without
\* a new retrieval; a call with no retrieval for its key in the last 15
\* minutes performs one; the retrievals recorded for other keys, and their
\* entries, are left alone.
C10_Step ==
    (last' # last) =>
        LET key  == << last'.date, last'.area >>
            prev == retrieved[key]
        IN  /\ IF prev.has /\ now.t - prev.at < 15
               THEN /\ ~last'.net
                    /\ last'.ret = prev.value
                    /\ nfetch' = nfetch
                    /\ retrieved' = retrieved
               ELSE /\ last'.net
                    /\ nfetch' = nfetch + 1
                    /\ retrieved'[key] = Entry(last'.ret, now.t)
            /\ \A k \in CacheArgs \ {key} :
                  retrieved'[k] = retrieved[k] /\ cache'[k] = cache[k]

C10_MemoizedFifteenMinutes == [][C10_Step]_vars

\* Rows retrieved for one key and None for another; 14 minutes after its
\* retrieval the first key is served its rows from the entry.
C10_Witness ==
    /\ last.has
    /\ ~last.net
    /\ last.ret # None
    /\ nfetch = 2
    /\ now.t - retrieved[<< last.date, last.area >>].at = 14
    /\ \E k \in CacheArgs : retrieved[k] = Entry(None, 0)

\* A second retrieval for the same key, 15 minutes after the first.
C10_WitnessExpiry ==
    /\ last.has
    /\ last.net
    /\ nfetch = 2
    /\ now.t = 15
    /\ Cardinality({k \in CacheArgs : retrieved[k].has}) = 1

(***************************************************************************)
(* to_dataframe (lines 65-72).  The frame is kept by column.  The instant  *)
(* of an identifier is its quarter-hour, in minutes from the local         *)
(* midnight of the day fetched; the rows are sorted by it.                 *)
(***************************************************************************)
ToInstant(time_start) == 15 * time_start

\* strftime("%H:%M") of a local instant.
HHMM(start) == << (start \div 60) % 24, start % 60 >>

\* rows sorted ascending by the instant of time_start.
RECURSIVE SortedByStart(_)
SortedByStart(rows) ==
    IF rows = << >> THEN << >>
    ELSE LET s == SortedByStart(SubSeq(rows, 1, Len(rows) - 1))
             x == rows[Len(rows)]
             p == Cardinality({i \in 1..Len(s) :
                     ToInstant(s[i].time_start) <= ToInstant(x.time_start)})
         IN  SubSeq(s, 1, p) \o << x >> \o SubSeq(s, p + 1, Len(s))

\* The frame: the columns time_start, SEK_per_kWh and start, sorted by
\* start, and the flags the column price_display is computed with.
to_dataframe(rows, ore, vat) ==
    LET sorted == SortedByStart(rows)
    IN  [len         |-> Len(sorted),
         time_start  |-> [i \in 1..Len(sorted) |-> sorted[i].time_start],
         SEK_per_kWh |-> [i \in 1..Len(sorted) |-> sorted[i].SEK_per_kWh],
         start       |-> [i \in 1..Len(sorted) |->
                             ToInstant(sorted[i].time_start)],
         display_ore |-> ore,
         include_vat |-> vat]

\* df["price_display"] at row i (from 1): lines 68-70.
price_display(df, i) ==
    apply_unit_and_vat(ParseDecimal(df.SEK_per_kWh[i], 1000),
                       df.display_ore, df.include_vat)

(***************************************************************************)
(* build_plotly_figure (lines 74-118): the colours of the bars, the        *)
(* outline of the markers and the ticks of the time axis.  The hover text  *)
(* is read from the frame when a bar is pointed at.                        *)
(***************************************************************************)
\* Lines 82-87.
BarColor(orig, top16, next8) ==
    IF orig \in top16 THEN COLOR_TOP16_PURPLE
    ELSE IF orig \in next8 THEN COLOR_NEXT8_RED
    ELSE COLOR_OTHER_GREEN

\* The variant that paints the selected bar black.
build_plotly_figure_marks_bar(df, top16, next8, sel) ==
    [k      |-> "fig",
     colors |-> [i \in 1..df.len |->
                    IF sel # None /\ sel.v = i - 1 THEN "black"
                    ELSE BarColor(df.time_start[i], top16, next8)],
     line   |-> IF sel # None THEN "black" ELSE "rgba(0,0,0,0)",
     ticks  |-> { << i, HHMM(df.start[i + 1]) >> :
                    i \in {j \in 0..(df.len - 1) : j % 8 = 0} }]

build_plotly_figure(df, top16, next8, sel) ==
    [k      |-> "fig",
     colors |-> [i \in 1..df.len |->
                    BarColor(df.time_start[i], top16, next8)],
     line   |-> IF sel # None THEN "black" ELSE "rgba(0,0,0,0)",
     ticks  |-> { << i, HHMM(df.start[i + 1]) >> :
                    i \in {j \in 0..(df.len - 1) : j % 8 = 0} }]

(***************************************************************************)
(* The render script (lines 122-210).  One action is one run of the        *)
(* script: the sidebar widgets, the fetch, and then either the advisory    *)
(* and st.stop(), or the ranking, the frame, the figure, the click and the *)
(* side panel.  The record run keeps what the run computed and displayed.  *)
(*                                                                         *)
(* The fetch is the function body applied to an answer of the API: what    *)
(* the cache serves is what an earlier run of the body returned, and any   *)
(* sequence of results comes about when the entries expire between runs.   *)
(***************************************************************************)
NotRun == [started |-> FALSE]

\* The variant that starts every run without a selection.
InitSelected_reset(s) == None

\* Lines 156-157.
InitSelected(s) == IF s = Unset THEN None ELSE s

\* if not rows (line 142)
NotRows(rows) == rows = None \/ Len(rows.v) = 0

\* df.iloc[i] for i >= 0: the row, or IndexError.
ILocOk(df, i) == i < df.len

\* Lines 204-210: LILA, RÖD, GRÖN.
ClassLabel(orig, top16, next8) ==
    IF orig \in top16 THEN "LILA"
    ELSE IF orig \in next8 THEN "ROD"
    ELSE "GRON"

IndexError == [k |-> "exc", name |-> "IndexError"]

\* The variant that keeps the chart of the run before on the page.
RenderAbsentStale(key, click) ==
    /\ run' = [started |-> TRUE, key |-> key,
               click |-> click, absent |-> TRUE, advisory |-> TRUE,
               nrows |-> 0, top16 |-> {}, next8 |-> {}, ids |-> << >>,
               figsel |-> None,
               fig |-> IF run.started THEN run.fig ELSE None,
               clicked |-> None, success |-> None, info |-> FALSE,
               metric |-> None, detail |-> None, clickloc |-> None,
               panelloc |-> None,
               error |-> None]
    /\ UNCHANGED selected_idx

\* Lines 142-147: the advisory, and st.stop() ends the run.
RenderAbsent(key, click) ==
    /\ run' = [started |-> TRUE, key |-> key,
               click |-> click, absent |-> TRUE, advisory |-> TRUE,
               nrows |-> 0, top16 |-> {}, next8 |-> {}, ids |-> << >>,
               figsel |-> None, fig |-> None,
               clicked |-> None, success |-> None, info |-> FALSE,
               metric |-> None, detail |-> None, clickloc |-> None,
               panelloc |-> None,
               error |-> None]
    /\ UNCHANGED selected_idx

\* Lines 198-210: the detail of the selected quarter.
DetailPanel(df, ranks, i) ==
    [k     |-> "detail",
     idx   |-> i,
     t_str |-> HHMM(df.start[i + 1]),
     p     |-> price_display(df, i + 1),
     label |-> ClassLabel(df.time_start[i + 1], ranks.top16, ranks.next8)]

\* Lines 160-210, with the rank sets and the frame of lines 150-151.
RenderFigure(key, click, ranks, df) ==
    LET sel0  == InitSelected(selected_idx)
        fig   == build_plotly_figure(df, ranks.top16, ranks.next8, sel0)
        \* lines 172-185
        took  == plotly_events /\ click # None
        sel1  == IF took THEN PyInt(click.v) ELSE sel0
        clickFails == took /\ ~ILocOk(df, click.v)
        \* lines 198-202
        panel == ~clickFails /\ sel1 # None
        panelFails == panel /\ ~ILocOk(df, sel1.v)
    IN  /\ selected_idx' = sel1
        /\ run' = [started |-> TRUE, key |-> key,
                   click |-> click, absent |-> FALSE, advisory |-> FALSE,
                   nrows |-> df.len, top16 |-> ranks.top16,
                   next8 |-> ranks.next8, ids |-> df.time_start,
                   figsel |-> sel0, fig |-> fig,
                   clicked |-> IF took THEN PyInt(click.v) ELSE None,
                   success |-> IF took /\ ~clickFails
                               THEN [k |-> "success",
                                     t_str |-> HHMM(df.start[click.v + 1]),
                                     p |-> price_display(df, click.v + 1)]
                               ELSE None,
                   info |-> ~plotly_events,
                   metric |-> IF clickFails THEN None ELSE PyInt(df.len),
                   detail |-> IF panel /\ ~panelFails
                              THEN DetailPanel(df, ranks, sel1.v)
                              ELSE None,
                   clickloc |-> IF took THEN PyInt(click.v) ELSE None,
                   panelloc |-> IF panel THEN sel1 ELSE None,
                   error |-> IF clickFails \/ panelFails
                             THEN IndexError ELSE None]

\* Lines 150-210.
RenderRows(key, click, rows, ore, vat) ==
    \E ranks \in {rank_sets(rows.v)} :
        \E df \in {to_dataframe(rows.v, ore, vat)} :
            RenderFigure(key, click, ranks, df)

\* Line 139: the date fetched, in days from the day the session runs in.
DateOf(dc) == IF dc = "Idag" THEN 0 ELSE 1

\* One run of the script with the widgets set to (a, dc, ore, vat), the
\* click delivered by plotly_events (None: no click) and the API's answer.
ScriptRun(a, dc, ore, vat, click, get) ==
    LET date == DateOf(dc)
        res  == fetch_day_rows_body(date, a, get)
        key  == << date, a >>
    IN  /\ area' = a
        /\ day_choice' = dc
        /\ display_ore' = ore
        /\ include_vat' = vat
        /\ res.k = "return"
        /\ IF NotRows(res.v)
           THEN RenderAbsent(key, click)
           ELSE RenderRows(key, click, res.v, ore, vat)
        /\ UNCHANGED << call, cacheVars, plotly_events >>

\* What the API answers in Spec: not found, a short table given in reverse
\* time order, and full tables.
UiAnswers ==
    { Response(404, None),
      Response(200, PyList(MkRows(3, 1, 0, 1, TRUE))),
      Response(200, PyList(MkRows(MaxRows, 2, 1, 1, FALSE))) }

\* The areas the user chooses among in Spec: the default and one other.
UiAreas == {DEFAULT_AREA, AREAS[3]}

\* The bars a click is tried on: every fifth and the last.
ClickBars(n) == {i \in 0..(n - 1) : i % 5 = 0 \/ i = n - 1}

Init ==
    /\ CallIdle
    /\ CacheIdle
    /\ plotly_events \in BOOLEAN
    /\ area = DEFAULT_AREA
    /\ day_choice = "Idag"
    /\ display_ore = FALSE
    /\ include_vat = FALSE
    /\ selected_idx = Unset
    /\ run = NotRun

\* The first run of a session: the widgets have their defaults.
FirstRun(get) ==
    /\ ~run.started
    /\ ScriptRun(area, day_choice, display_ore, include_vat, None, get)

\* The user changes one sidebar widget, which reruns the script.
WidgetRun(a, dc, ore, vat, get) ==
    /\ run.started
    /\ Cardinality({w \in 1..4 :
          << a, dc, ore, vat >>[w]
             # << area, day_choice, display_ore, include_vat >>[w]}) = 1
    /\ ScriptRun(a, dc, ore, vat, None, get)

\* The user clicks bar i of the chart on the page, which reruns the script.
ClickRun(i, get) ==
    /\ run.started
    /\ plotly_events
    /\ run.fig # None
    /\ i \in ClickBars(Len(run.fig.colors))
    /\ ScriptRun(area, day_choice, display_ore, include_vat,
                 PyInt(i), get)

\* The auto-refresh timer, or a reload, reruns the script.
Rerun(get) ==
    /\ run.started
    /\ ScriptRun(area, day_choice, display_ore, include_vat, None, get)

Next ==
    \/ \E g \in UiAnswers : FirstRun(g)
    \/ \E a \in UiAreas, dc \in {"Idag", "Imorgon"},
          ore \in BOOLEAN, vat \in BOOLEAN, g \in UiAnswers :
             WidgetRun(a, dc, ore, vat, g)
    \/ \E i \in 0..MaxRows, g \in UiAnswers : ClickRun(i, g)
    \/ \E g \in UiAnswers : Rerun(g)

Spec == Init /\ [][Next]_vars

(***************************************************************************)
(* Properties of the render script, under Spec.                            *)
(***************************************************************************)
\* C4: in a run whose fetch result is absent the advisory is shown and the
\* run halts before ranking, frame and figure: no chart is drawn, no click
\* is processed, nothing is looked up, no exception is raised, and
\* st.session_state.selected_idx is left as it was.
C4_Step ==
    (run'.started /\ run'.absent) =>
        /\ run'.advisory
        /\ run'.fig = None
        /\ run'.clicked = None
        /\ run'.success = None
        /\ run'.detail = None
        /\ run'.clickloc = None /\ run'.panelloc = None
        /\ run'.error = None
        /\ selected_idx' = selected_idx

C4_AbsentHalts == [][C4_Step]_vars

\* A run halted on an absent result although a click on another bar than
\* the selected one was delivered to it.
C4_Witness ==
    /\ run.started
    /\ run.absent
    /\ run.click # None
    /\ selected_idx # None /\ selected_idx # Unset
    /\ selected_idx # run.click

\* C5: a run that fetches another (date, area) than the run before, and
\* gets no click, hands no selection to the figure and shows no detail.
C5_Step ==
    (/\ run.started /\ run'.started
     /\ run'.key # run.key
     /\ ~run'.absent
     /\ run'.click = None) =>
        /\ run'.figsel = None
        /\ run'.panelloc = None
        /\ run'.detail = None

C5_ClearedOnNewKey == [][C5_Step]_vars

\* C6: a run that reaches the side panel with a selection looks up a row
\* below the length of the frame, and does not end in an exception.
C6_LookupInRange ==
    (run.started /\ run.panelloc # None) =>
        /\ run.panelloc.v < run.nrows
        /\ run.error = None

\* The values st.session_state.selected_idx takes.
SelectionStates == {Unset, None} \cup { PyInt(i) : i \in 0..MaxRows }

\* C7: the selection is NoSelection (the key unset, or None) or Selected(i);
\* it starts as NoSelection; a run that processes a click on bar i leaves
\* Selected(i), whatever it was; a run that processes no click leaves the
\* selection as it was.
C7_Step ==
    /\ selected_idx' \in SelectionStates
    /\ (run'.started /\ run'.clicked # None) => selected_idx' = run'.clicked
    /\ (run'.started /\ run'.clicked = None) =>
          \/ selected_idx' = selected_idx
          \/ selected_idx = Unset /\ selected_idx' = None

C7_SelectionMachine ==
    /\ selected_idx \in {Unset, None}
    /\ [][C7_Step]_vars

\* A run has processed a click on one bar while another bar was selected.
C7_Witness ==
    /\ run.started
    /\ run.clicked # None
    /\ run.figsel # None
    /\ run.figsel # run.clicked
    /\ selected_idx = run.clicked

\* The colour that goes with a label of the side panel.
ColorOfLabel(label) ==
    IF label = "LILA" THEN COLOR_TOP16_PURPLE
    ELSE IF label = "ROD" THEN COLOR_NEXT8_RED
    ELSE COLOR_OTHER_GREEN

\* C9: every bar has the colour of the first rule its identifier matches
\* (in top16: purple, else in next8: red, else green), whatever the
\* selection is; and the label of the side panel for the selected bar names
\* the class of that bar's colour in the chart of the same run.
C9_ColoursAndLabel ==
    (run.started /\ ~run.absent) =>
        /\ Len(run.fig.colors) = run.nrows
        /\ \A i \in 1..run.nrows :
              run.fig.colors[i] =
                 IF run.ids[i] \in run.top16 THEN COLOR_TOP16_PURPLE
                 ELSE IF run.ids[i] \in run.next8 THEN COLOR_NEXT8_RED
                 ELSE COLOR_OTHER_GREEN
        /\ run.detail # None =>
              /\ run.detail.label \in {"LILA", "ROD", "GRON"}
              /\ ColorOfLabel(run.detail.label)
                    = run.fig.colors[run.detail.idx + 1]

\* A chart with bars of all three colours, drawn with a selection, and the
\* side panel showing a bar of the middle class.
C9_Witness ==
    /\ run.started
    /\ ~run.absent
    /\ run.figsel # None
    /\ run.detail # None
    /\ run.detail.label = "ROD"
    /\ { run.fig.colors[i] : i \in 1..run.nrows } =
          {COLOR_TOP16_PURPLE, COLOR_NEXT8_RED, COLOR_OTHER_GREEN}

====
